---------------------------- MODULE Spec2Model ----------------------------
(***************************************************************************)
(* A model of smartmoneyconcepts/smc.py: the swing point detector          *)
(* (swing_highs_lows and its five strategies), the market structure break  *)
(* detector (bos_choch) and the order block detector (ob).                 *)
(*                                                                         *)
(* Positions are 0-based as in the source: a column of n rows is a         *)
(* function on 0..n-1.  A float cell that may be missing is <<>> for NaN   *)
(* and <<v>> for the number v, so that every comparison with NaN is false  *)
(* as it is in numpy.  Prices are integers, which float64 holds exactly.   *)
(***************************************************************************)
EXTENDS Integers, Sequences, FiniteSets, TLC

VARIABLES
    \* swing_highs_lows
    ohlc,               \* the candle table the detector is called on
    swing_evaluator,    \* the strategy selector
    swing_length,       \* window of default, fractals, momentum, weighted
    short_swing_length, \* windows of combined
    long_swing_length,
    swings,             \* the table swing_highs_lows returned for ohlc
    \* bos_choch
    bos_pc,             \* "classify", "resolve", "done"; "idle" when not called
    scan_i,             \* the row the loop at line 403 is at
    level_order,        \* Level of the rows appended so far
    highs_lows_order,   \* HighLow of the rows appended so far
    last_positions,     \* the rows appended so far
    bos, choch, level,  \* the arrays of lines 397-399
    close_break,
    pending,            \* the rows the loop at line 487 has still to visit
    broken,             \* the array of line 486
    bos_out,            \* the table bos_choch returns
    \* ob
    ob_pc,              \* "scan", "done"; "idle" when not called
    close_index,        \* the row the loop at line 606 is at
    swing_high_low,     \* the HighLow column of the swing table
    volume,             \* the volume column
    close_mitigation,
    blocks,             \* the arrays of lines 555-561 and 564
    breaker, crossed,   \* the arrays of lines 562-563
    ob_out,             \* the table ob returns
    \* liquidity
    liq_pc,             \* "highs", "lows", "return", "done"; "idle" when not called
    liq_i,              \* the row the loop at line 667 or 697 is at
    range_percent,      \* in units of 1 / RangeDenominator
    swing_arg,          \* the swing table the caller passes
    swing_copy,         \* the copy of line 656
    liq,                \* the arrays of lines 662-665
    liq_out,            \* the table liquidity returns
    liq_run,            \* 1 in the first call on the inputs, 2 in the second
    liq_first           \* the table the first call returned

swingVars == <<swing_evaluator, swing_length, short_swing_length,
               long_swing_length, swings>>

bosVars == <<bos_pc, scan_i, level_order, highs_lows_order, last_positions,
             bos, choch, level, close_break, pending, broken, bos_out>>

obVars == <<ob_pc, close_index, swing_high_low, volume, close_mitigation,
            blocks, breaker, crossed, ob_out>>

liqVars == <<liq_pc, liq_i, range_percent, swing_arg, swing_copy, liq, liq_out,
             liq_run, liq_first>>

vars == <<ohlc, swingVars, bosVars, obVars, liqVars>>

---------------------------------------------------------------------------
\* Bounds of the model.

\* Candles in the table swing_highs_lows is called on.
SwingLen == 3
\* Prices are 0..SwingMaxPrice.
SwingMaxPrice == 2
\* Window lengths are 1..MaxWindow.
MaxWindow == 2

\* Rows of the candle table and swing table bos_choch is called on.
BosLen == 5

\* Rows of the candle table and swing table ob is called on.
ObLen == 3
\* Rows of the tables ob is called on with a volume column of zeros.
ObCrossLen == 4

\* Rows of the candle table and swing table liquidity is called on.
LiqLen == 3
\* range_percent is a multiple of 1 / RangeDenominator.
RangeDenominator == 2

\* Default arguments of swing_highs_lows.
DefaultSwingLength == 10
DefaultShortSwingLength == 10
DefaultLongSwingLength == 50

---------------------------------------------------------------------------
\* Float cells.

NaN == <<>>
Num(v) == <<v>>
IsNaN(x) == x = NaN
\* Comparisons of float cells: false when either side is NaN.
Eq(x, y) == ~IsNaN(x) /\ ~IsNaN(y) /\ x[1] = y[1]
Lt(x, y) == ~IsNaN(x) /\ ~IsNaN(y) /\ x[1] < y[1]
Gt(x, y) == Lt(y, x)
Le(x, y) == ~IsNaN(x) /\ ~IsNaN(y) /\ x[1] <= y[1]
Ge(x, y) == Le(y, x)

SetMax(S) == CHOOSE m \in S : \A x \in S : x <= m
SetMin(S) == CHOOSE m \in S : \A x \in S : m <= x

\* Number of rows of a table.
Rows(df) == Cardinality(DOMAIN df)
\* One column of a table, as float cells.
Column(df, name) == [j \in DOMAIN df |-> Num(df[j][name])]
\* The table df with the row c appended.
AppendRow(df, c) ==
    [j \in 0..Rows(df) |-> IF j < Rows(df) THEN df[j] ELSE c]

\* Series.shift(k) of the series F: row i holds F's cell of row i - k, NaN
\* for the first k rows.
Shift(F(_), k, i) == IF i - k < 0 THEN NaN ELSE F(i - k)

\* A rolling maximum whose window also takes in the row after i.
RollingMaxAhead(col, window, min_periods, i) ==
    LET lo == IF i - window + 1 < 0 THEN 0 ELSE i - window + 1
        hi == IF (i + 1) \in DOMAIN col THEN i + 1 ELSE i
    IN  IF i - lo + 1 < min_periods THEN NaN
        ELSE Num(SetMax({col[j][1] : j \in lo..hi}))

\* Series.rolling(window, min_periods).max() at row i: the maximum of the
\* window of `window` rows ending at row i, NaN when the window holds fewer
\* than min_periods rows.
RollingMax(col, window, min_periods, i) ==
    LET lo == IF i - window + 1 < 0 THEN 0 ELSE i - window + 1
    IN  IF i - lo + 1 < min_periods THEN NaN
        ELSE Num(SetMax({col[j][1] : j \in lo..i}))

RollingMin(col, window, min_periods, i) ==
    LET lo == IF i - window + 1 < 0 THEN 0 ELSE i - window + 1
    IN  IF i - lo + 1 < min_periods THEN NaN
        ELSE Num(SetMin({col[j][1] : j \in lo..i}))

\* Series.diff(k) at row i: row i minus row i - k, NaN for the first k rows.
Diff(col, k, i) == IF i - k < 0 THEN NaN ELSE Num(col[i][1] - col[i - k][1])

RECURSIVE Pow(_, _)
Pow(b, e) == IF e = 0 THEN 1 ELSE b * Pow(b, e - 1)

RECURSIVE SumTo(_, _)
\* f[0] + ... + f[k]
SumTo(f, k) == IF k < 0 THEN 0 ELSE f[k] + SumTo(f, k - 1)

\* Series.ewm(span).mean() (adjust=True) at row i is
\*   sum_k (1-a)^k x[i-k] / sum_k (1-a)^k,  a = 2/(span+1), k = 0..i.
\* With 1-a = (span-1)/(span+1) and both sums scaled by (span+1)^i the
\* weights are the integers EwmWeight; the mean is EwmNum / EwmDen.
EwmWeight(span, i, k) == Pow(span - 1, k) * Pow(span + 1, i - k)
EwmNum(col, span, i) ==
    SumTo([k \in 0..i |-> EwmWeight(span, i, k) * col[i - k][1]], i)
EwmDen(span, i) == SumTo([k \in 0..i |-> EwmWeight(span, i, k)], i)

\* np.where(cond, v, np.nan) followed by np.nan_to_num
WhereNum(cond, v) == IF cond THEN v ELSE 0

---------------------------------------------------------------------------
\* swing_highs_lows: the five strategies.  Each returns the table of
\* HighLow and Level, one row per candle.

\* The level np.where chain shared by default, fractals, momentum, weighted.
SwingLevel(df, i, hl) ==
    IF hl = 1 THEN Num(df[i].high)
    ELSE IF hl = -1 THEN Num(df[i].low)
    ELSE NaN

fractals(df, w) ==
    LET high == Column(df, "high")
        low  == Column(df, "low")
        hl == [i \in DOMAIN df |->
                 WhereNum(/\ Gt(high[i], Shift(LAMBDA j : high[j], 1, i))
                          /\ Gt(high[i], Shift(LAMBDA j : high[j], 2, i))
                          /\ Gt(high[i],
                                Shift(LAMBDA j : RollingMax(high, w, w, j), 1, i)), 1)
               + WhereNum(/\ Lt(low[i], Shift(LAMBDA j : low[j], 1, i))
                          /\ Lt(low[i], Shift(LAMBDA j : low[j], 2, i))
                          /\ Lt(low[i],
                                Shift(LAMBDA j : RollingMin(low, w, w, j), 1, i)), -1)]
    IN  [i \in DOMAIN df |-> [HighLow |-> Num(hl[i]), Level |-> SwingLevel(df, i, hl[i])]]

momentum(df, w) ==
    LET high == Column(df, "high")
        low  == Column(df, "low")
        close == Column(df, "close")
        hl == [i \in DOMAIN df |->
                 WhereNum(/\ Eq(high[i], RollingMax(high, w, w, i))
                          /\ Gt(Diff(close, w, i), Num(0)), 1)
               + WhereNum(/\ Eq(low[i], RollingMin(low, w, w, i))
                          /\ Lt(Diff(close, w, i), Num(0)), -1)]
    IN  [i \in DOMAIN df |-> [HighLow |-> Num(hl[i]), Level |-> SwingLevel(df, i, hl[i])]]

weighted_rolling_window(df, w) ==
    LET high == Column(df, "high")
        low  == Column(df, "low")
        hl == [i \in DOMAIN df |->
                 WhereNum(high[i][1] * EwmDen(w, i) >= EwmNum(high, w, i), 1)
               + WhereNum(low[i][1] * EwmDen(w, i) <= EwmNum(low, w, i), -1)]
    IN  [i \in DOMAIN df |-> [HighLow |-> Num(hl[i]), Level |-> SwingLevel(df, i, hl[i])]]

\* The level np.where chain of combined: 1, -1, 2, -2, otherwise NaN.
CombinedLevel(df, i, hl) ==
    IF hl = 1 THEN Num(df[i].high)
    ELSE IF hl = -1 THEN Num(df[i].low)
    ELSE IF hl = 2 THEN Num(df[i].high)
    ELSE IF hl = -2 THEN Num(df[i].low)
    ELSE NaN

combined(df, short, long) ==
    LET high == Column(df, "high")
        low  == Column(df, "low")
        hl == [i \in DOMAIN df |->
                 WhereNum(Eq(high[i], RollingMax(high, short, 1, i)), 1)
               + WhereNum(Eq(low[i], RollingMin(low, short, 1, i)), -1)
               + WhereNum(Eq(high[i], RollingMax(high, long, 1, i)), 2)
               + WhereNum(Eq(low[i], RollingMin(low, long, 1, i)), -2)]
    IN  [i \in DOMAIN df |-> [HighLow |-> Num(hl[i]), Level |-> CombinedLevel(df, i, hl[i])]]

default(df, w) ==
    LET high == Column(df, "high")
        low  == Column(df, "low")
        hl == [i \in DOMAIN df |->
                 WhereNum(Eq(high[i], RollingMax(high, w, 1, i)), 1)
               + WhereNum(Eq(low[i], RollingMin(low, w, 1, i)), -1)]
    IN  [i \in DOMAIN df |-> [HighLow |-> Num(hl[i]), Level |-> SwingLevel(df, i, hl[i])]]

SwingMethodEvaluator ==
    {"combined", "fractals", "momentum", "weighted_rolling_window", "default"}

\* The match statement of swing_highs_lows.
swing_highs_lows(df, evaluator, w, short, long) ==
    CASE evaluator = "momentum" -> momentum(df, w)
      [] evaluator = "weighted_rolling_window" -> weighted_rolling_window(df, w)
      [] evaluator = "fractals" -> fractals(df, w)
      [] evaluator = "combined" -> combined(df, short, long)
      [] evaluator = "default" -> default(df, w)
      [] OTHER -> default(df, w)

---------------------------------------------------------------------------
\* A detector that is not called in a specification stays idle.

IdleSwing ==
    /\ swing_evaluator = "default"
    /\ swing_length = DefaultSwingLength
    /\ short_swing_length = DefaultShortSwingLength
    /\ long_swing_length = DefaultLongSwingLength
    /\ swings = <<>>

IdleBos ==
    /\ bos_pc = "idle"
    /\ scan_i = 0
    /\ level_order = <<>>
    /\ highs_lows_order = <<>>
    /\ last_positions = <<>>
    /\ bos = <<>>
    /\ choch = <<>>
    /\ level = <<>>
    /\ close_break = TRUE
    /\ pending = <<>>
    /\ broken = <<>>
    /\ bos_out = <<>>

IdleOb ==
    /\ ob_pc = "idle"
    /\ close_index = 0
    /\ swing_high_low = <<>>
    /\ volume = <<>>
    /\ close_mitigation = FALSE
    /\ blocks = <<>>
    /\ breaker = <<>>
    /\ crossed = <<>>
    /\ ob_out = <<>>

IdleLiq ==
    /\ liq_pc = "idle"
    /\ liq_i = 0
    /\ range_percent = 0
    /\ swing_arg = <<>>
    /\ swing_copy = <<>>
    /\ liq = <<>>
    /\ liq_out = <<>>
    /\ liq_run = 0
    /\ liq_first = <<>>

---------------------------------------------------------------------------
\* The swing detector called on a growing candle table.

\* Candles with low <= close <= high.  open and volume are not read.  close
\* is read by momentum alone: there a candle closes at its low or at its
\* high, and for the other strategies at its high.
SwingCandles(evaluator) ==
    {c \in [high : 0..SwingMaxPrice, low : 0..SwingMaxPrice, close : 0..SwingMaxPrice] :
        /\ c.low <= c.high
        /\ c.close \in {c.low, c.high}
        /\ evaluator # "momentum" => c.close = c.high}

\* The caller fixes a strategy and its windows; a parameter the strategy
\* does not read keeps its default.
InitSwing ==
    /\ IdleBos
    /\ IdleOb
    /\ IdleLiq
    /\ ohlc = <<>>
    /\ swings = <<>>
    /\ swing_evaluator \in SwingMethodEvaluator
    /\ IF swing_evaluator = "combined"
       THEN /\ swing_length = DefaultSwingLength
            /\ short_swing_length \in 1..MaxWindow
            /\ long_swing_length \in 1..MaxWindow
       ELSE /\ swing_length \in 1..MaxWindow
            /\ short_swing_length = DefaultShortSwingLength
            /\ long_swing_length = DefaultLongSwingLength

\* One more candle has closed and the detector is run on the longer table.
SwingCall(c) ==
    /\ Rows(ohlc) < SwingLen
    /\ ohlc' = AppendRow(ohlc, c)
    /\ swings' = swing_highs_lows(ohlc', swing_evaluator, swing_length,
                                  short_swing_length, long_swing_length)
    /\ UNCHANGED <<swing_evaluator, swing_length, short_swing_length,
                   long_swing_length, bosVars, obVars, liqVars>>

NextSwing == \E c \in SwingCandles(swing_evaluator) : SwingCall(c)

SpecSwing == InitSwing /\ [][NextSwing]_vars

---------------------------------------------------------------------------
\* Claims about swing_highs_lows.

\* The trailing window of w rows ending at row i, cut at the first row.
TrailingWindow(i, w) == (IF i - w + 1 < 0 THEN 0 ELSE i - w + 1)..i

\* C5: with the default strategy, row i is labelled swing high (HighLow = 1)
\* if and only if its high equals the maximum high of the trailing window of
\* swing_length candles ending at i.
C5_DefaultHighIffWindowMax ==
    swing_evaluator = "default" =>
        \A i \in DOMAIN swings :
            (swings[i].HighLow = Num(1)) <=>
                (ohlc[i].high =
                    SetMax({ohlc[j].high : j \in TrailingWindow(i, swing_length)}))

\* C6: no lookahead.  When the table grows by one candle and the detector is
\* run again, the HighLow and Level of every row it had before are the same:
\* the row at i does not depend on the candles after i.
C6_NoLookahead ==
    [][\A i \in DOMAIN swings : swings'[i] = swings[i]]_vars

\* C6 witness: the detector has been run again on a longer table, and a row
\* it labels swing high is followed by a candle with a higher high.
C6_Witness ==
    \E i \in DOMAIN swings : \E j \in DOMAIN swings :
        /\ i < j
        /\ swings[i].HighLow = Num(1)
        /\ ohlc[j].high > ohlc[i].high

\* C7: for every strategy and every row, a non-zero HighLow comes with a
\* Level that is the candle's high when HighLow is positive and the candle's
\* low when it is negative.
C7_SignalHasLevel ==
    \A i \in DOMAIN swings :
        /\ swings[i].HighLow[1] > 0 => swings[i].Level = Num(ohlc[i].high)
        /\ swings[i].HighLow[1] < 0 => swings[i].Level = Num(ohlc[i].low)

---------------------------------------------------------------------------
\* bos_choch.

\* list[k] of a Python list for a negative k
PyAt(list, k) == list[Len(list) + k + 1]

\* Integers up to 2^24 are float32 numbers; from there to 2^25 every second one.
Float32Exact == 16777216
\* The float32 nearest to the integer v (ties to even), 0 <= |v| < 2^25.
Float32(v) ==
    LET a == IF v < 0 THEN -v ELSE v
        q == a \div 2
        r == IF a <= Float32Exact \/ a % 2 = 0 THEN a
             ELSE IF q % 2 = 0 THEN 2 * q ELSE 2 * (q + 1)
    IN  IF v < 0 THEN -r ELSE r

\* highs_lows_order[-4:] == pattern
LastFourAre(order, pattern) ==
    \A k \in 1..4 : order[Len(order) - 4 + k] = pattern[k]

\* The four conditions of lines 411-419, 429-437, 447-455, 467-475 on the
\* lists as they are after the append.
BullishBos(lo, ho) ==
    /\ LastFourAre(ho, <<-1, 1, -1, 1>>)
    /\ Lt(PyAt(lo, -4), PyAt(lo, -2))
    /\ Lt(PyAt(lo, -2), PyAt(lo, -3))
    /\ Lt(PyAt(lo, -3), PyAt(lo, -1))

BearishBos(lo, ho) ==
    /\ LastFourAre(ho, <<1, -1, 1, -1>>)
    /\ Gt(PyAt(lo, -4), PyAt(lo, -2))
    /\ Gt(PyAt(lo, -2), PyAt(lo, -3))
    /\ Gt(PyAt(lo, -3), PyAt(lo, -1))

\* A change of character read off the pattern of a break of structure.
BullishChochAsBos(lo, ho) == BullishBos(lo, ho)

BullishChoch(lo, ho) ==
    /\ LastFourAre(ho, <<-1, 1, -1, 1>>)
    /\ Gt(PyAt(lo, -1), PyAt(lo, -3))
    /\ Gt(PyAt(lo, -3), PyAt(lo, -4))
    /\ Gt(PyAt(lo, -4), PyAt(lo, -2))

BearishChoch(lo, ho) ==
    /\ LastFourAre(ho, <<1, -1, 1, -1>>)
    /\ Lt(PyAt(lo, -1), PyAt(lo, -3))
    /\ Lt(PyAt(lo, -3), PyAt(lo, -4))
    /\ Lt(PyAt(lo, -4), PyAt(lo, -2))

\* An anchor one entry too new: the last row appended before this one.
AnchorRowNewest(positions) == PyAt(positions, -1)

\* last_positions[-2], the row every write of lines 409-482 goes to.  The row
\* being classified is appended to last_positions only at line 484.
AnchorRow(positions) == PyAt(positions, -2)

\* level_order[-3] as the float32 array level holds it.
EventLevel(lo) == Float32(PyAt(lo, -3)[1])

\* Levels of the swing table: they include 0 and a negative price, so that
\* the level an event breaks may be 0.
BosPrices == -1..2

\* Rows of a swing table: no swing (NaN), the 0 that swing_highs_lows writes
\* for no swing, and a swing high or low at a level.
SwingRows ==
    {[HighLow |-> NaN, Level |-> NaN], [HighLow |-> Num(0), Level |-> NaN]}
    \cup {[HighLow |-> Num(d), Level |-> Num(v)] : d \in {1, -1}, v \in BosPrices}

Zeros(n) == [r \in 0..(n - 1) |-> 0]

\* bos_choch is called on tables of BosLen rows.  The rows of the swing table
\* are drawn as the loop at line 403 reads them, the candles and close_break
\* when the loop at line 487 first reads them.
InitBos ==
    /\ IdleSwing
    /\ IdleOb
    /\ IdleLiq
    /\ ohlc = <<>>
    /\ bos_pc = "classify"
    /\ scan_i = 0
    /\ level_order = <<>>
    /\ highs_lows_order = <<>>
    /\ last_positions = <<>>
    /\ bos = Zeros(BosLen)
    /\ choch = Zeros(BosLen)
    /\ level = Zeros(BosLen)
    /\ close_break = TRUE
    /\ pending = <<>>
    /\ broken = <<>>
    /\ bos_out = <<>>

\* One pass of the loop at line 403, on the row `row` of the swing table.
ClassifyRow(row) ==
    /\ bos_pc = "classify"
    /\ scan_i < BosLen
    /\ scan_i' = scan_i + 1
    /\ IF IsNaN(row.HighLow)
       THEN UNCHANGED <<level_order, highs_lows_order, last_positions,
                        bos, choch, level>>
       ELSE LET lo == Append(level_order, row.Level)
                ho == Append(highs_lows_order, row.HighLow[1])
            IN  /\ level_order' = lo
                /\ highs_lows_order' = ho
                /\ last_positions' = Append(last_positions, scan_i)
                /\ IF Len(lo) >= 4
                   THEN LET p == AnchorRow(last_positions)
                            bos1 == IF BullishBos(lo, ho) THEN 1 ELSE 0
                            lvl1 == IF bos1 # 0 THEN EventLevel(lo) ELSE 0
                            bos2 == IF BearishBos(lo, ho) THEN -1 ELSE bos1
                            lvl2 == IF bos2 # 0 THEN EventLevel(lo) ELSE 0
                            ch1  == IF BullishChoch(lo, ho) THEN 1 ELSE 0
                            lvl3 == IF ch1 # 0 THEN EventLevel(lo) ELSE lvl2
                            ch2  == IF BearishChoch(lo, ho) THEN -1 ELSE ch1
                            lvl4 == IF ch2 # 0 THEN EventLevel(lo) ELSE lvl3
                        IN  /\ bos' = [bos EXCEPT ![p] = bos2]
                            /\ choch' = [choch EXCEPT ![p] = ch2]
                            /\ level' = [level EXCEPT ![p] = lvl4]
                   ELSE UNCHANGED <<bos, choch, level>>
    /\ UNCHANGED <<ohlc, swingVars, obVars, liqVars, bos_pc, close_break, pending, broken, bos_out>>

\* np.where(np.logical_or(bos != 0, choch != 0))[0]
EventRows(b, c) == {r \in DOMAIN b : b[r] # 0 \/ c[r] # 0}

RECURSIVE Ascending(_)
\* The rows of S in ascending order, as np.where lists them.
Ascending(S) ==
    IF S = {} THEN <<>>
    ELSE <<SetMin(S)>> \o Ascending(S \ {SetMin(S)})

\* The first row the slice [i + 2:] of lines 491 and 494 takes in.
ScanFrom(i) == i + 2

\* Candles of bos_choch.  It reads close alone when close_break, and high and
\* low alone otherwise: the columns it does not read are those of a candle
\* that closes at its high, with high = low when only the close is read.
BosCandles(cb) ==
    {c \in [high : BosPrices, low : BosPrices, close : BosPrices] :
        /\ c.low <= c.high
        /\ c.close = c.high
        /\ cb => c.low = c.high}

UnreadCandle == [high |-> 0, low |-> 0, close |-> 0]

\* The candle tables of BosLen rows; the rows before `first`, which no slice
\* of the loop at line 487 takes in, are all UnreadCandle.
BosCandleTables(cb, first) ==
    {[r \in 0..(BosLen - 1) |-> IF r < first THEN UnreadCandle ELSE f[r]] :
        f \in [first..(BosLen - 1) -> BosCandles(cb)]}

\* The loop at line 403 is over; line 486 and the np.where of line 487.  The
\* three lists are not read again.
BeginResolve ==
    /\ bos_pc = "classify"
    /\ scan_i = BosLen
    /\ bos_pc' = "resolve"
    /\ pending' = Ascending(EventRows(bos, choch))
    /\ broken' = Zeros(BosLen)
    /\ level_order' = <<>>
    /\ highs_lows_order' = <<>>
    /\ last_positions' = <<>>
    /\ \E cb \in BOOLEAN :
          /\ close_break' = cb
          /\ ohlc' \in BosCandleTables(cb,
                 IF EventRows(bos, choch) = {} THEN BosLen
                 ELSE ScanFrom(SetMin(EventRows(bos, choch))))
    /\ UNCHANGED <<swingVars, obVars, liqVars, scan_i, bos, choch, level, bos_out>>

\* The mask of lines 488-494 for the event at row i: the rows of the slice
\* where it is True.
BreakMask(i) ==
    {c \in ScanFrom(i)..(BosLen - 1) :
        IF bos[i] = 1 \/ choch[i] = 1
        THEN (IF close_break THEN ohlc[c].close ELSE ohlc[c].high) > level[i]
        ELSE IF bos[i] = -1 \/ choch[i] = -1
        THEN (IF close_break THEN ohlc[c].close ELSE ohlc[c].low) < level[i]
        ELSE FALSE}

\* The last row of the mask that is True.
LastTrue(mask) == SetMax(mask)

\* np.argmax(mask) + i + 2: the first row of the mask that is True.
FirstTrue(mask) == SetMin(mask)

\* An earlier event is removed only when broken strictly after row j.
BrokenAfter(k, i, j) == k < i /\ broken[k] > j

\* The test of line 500 on the event at row k, for the event at row i broken
\* at row j.
BrokenNotBefore(k, i, j) == k < i /\ broken[k] >= j

\* One pass of the loop at line 487, on the next event row.
ResolveEvent ==
    /\ bos_pc = "resolve"
    /\ pending # <<>>
    /\ pending' = Tail(pending)
    /\ LET i == Head(pending)
           mask == BreakMask(i)
       IN  IF mask # {}
           THEN LET j == FirstTrue(mask)
                    removed == {k \in EventRows(bos, choch) : BrokenNotBefore(k, i, j)}
                IN  /\ broken' = [broken EXCEPT ![i] = j]
                    /\ bos' = [r \in DOMAIN bos |-> IF r \in removed THEN 0 ELSE bos[r]]
                    /\ choch' = [r \in DOMAIN choch |-> IF r \in removed THEN 0 ELSE choch[r]]
                    /\ level' = [r \in DOMAIN level |-> IF r \in removed THEN 0 ELSE level[r]]
           ELSE UNCHANGED <<bos, choch, level, broken>>
    /\ UNCHANGED <<ohlc, swingVars, obVars, liqVars, bos_pc, scan_i, level_order, highs_lows_order,
                   last_positions, close_break, bos_out>>

\* np.where(a != 0, a, np.nan)
NanIfZero(a) == [r \in DOMAIN a |-> IF a[r] # 0 THEN Num(a[r]) ELSE NaN]

\* Lines 506-524: the events with no broken row are removed, then every 0 of
\* the four arrays becomes NaN in the table returned.
ReturnBos ==
    /\ bos_pc = "resolve"
    /\ pending = <<>>
    /\ bos_pc' = "done"
    /\ LET unbroken == {r \in EventRows(bos, choch) : broken[r] = 0}
           b == [r \in DOMAIN bos |-> IF r \in unbroken THEN 0 ELSE bos[r]]
           c == [r \in DOMAIN choch |-> IF r \in unbroken THEN 0 ELSE choch[r]]
           l == [r \in DOMAIN level |-> IF r \in unbroken THEN 0 ELSE level[r]]
       IN  /\ bos' = b
           /\ choch' = c
           /\ level' = l
           /\ bos_out' = [r \in DOMAIN bos |->
                            [BOS |-> NanIfZero(b)[r], CHOCH |-> NanIfZero(c)[r],
                             Level |-> NanIfZero(l)[r],
                             BrokenIndex |-> NanIfZero(broken)[r]]]
    /\ UNCHANGED <<ohlc, swingVars, obVars, liqVars, scan_i, level_order, highs_lows_order,
                   last_positions, close_break, pending, broken>>

NextBos ==
    \/ \E row \in SwingRows : ClassifyRow(row)
    \/ BeginResolve
    \/ ResolveEvent
    \/ ReturnBos

SpecBos == InitBos /\ [][NextBos]_vars

---------------------------------------------------------------------------
\* Claims about bos_choch.

\* The event the four swings oldest to newest p4, p3, p2, p1 make, as
\* <<BOS, CHOCH>>: labels h, levels l.
FourPointEvent(h4, h3, h2, h1, l4, l3, l2, l1) ==
    LET lows_highs == h4 = -1 /\ h3 = 1 /\ h2 = -1 /\ h1 = 1
        highs_lows == h4 = 1 /\ h3 = -1 /\ h2 = 1 /\ h1 = -1
        b == IF highs_lows /\ Gt(l4, l2) /\ Gt(l2, l3) /\ Gt(l3, l1) THEN -1
             ELSE IF lows_highs /\ Lt(l4, l2) /\ Lt(l2, l3) /\ Lt(l3, l1) THEN 1
             ELSE 0
        c == IF highs_lows /\ Lt(l1, l3) /\ Lt(l3, l4) /\ Lt(l4, l2) THEN -1
             ELSE IF lows_highs /\ Gt(l1, l3) /\ Gt(l3, l4) /\ Gt(l4, l2) THEN 1
             ELSE 0
    IN  <<b, c>>

\* The event of the four appended swings whose second oldest is entry t.
EventAround(t) ==
    FourPointEvent(highs_lows_order[t - 1], highs_lows_order[t],
                   highs_lows_order[t + 1], highs_lows_order[t + 2],
                   level_order[t - 1], level_order[t],
                   level_order[t + 1], level_order[t + 2])

\* C1 as amended: an event is anchored at the third most recent of the four
\* swings inspected.  While the swing table is scanned, the row of an
\* appended swing p3 carries the BOS or CHOCH value of the four swings
\* p4, p3, p2, p1 around it, with the level of p3, once p2 and p1 are
\* appended; the rows of the two newest swings, of the oldest one and of no
\* swing carry no event.
C1_AnchoredAtThirdNewest ==
    bos_pc = "classify" =>
        /\ \A t \in 1..Len(last_positions) :
              LET r == last_positions[t]
              IN  IF 2 <= t /\ t + 2 <= Len(last_positions)
                  THEN /\ <<bos[r], choch[r]>> = EventAround(t)
                       /\ <<bos[r], choch[r]>> # <<0, 0>> =>
                              Num(level[r]) = level_order[t]
                  ELSE bos[r] = 0 /\ choch[r] = 0
        /\ \A r \in DOMAIN bos :
              (\A t \in 1..Len(last_positions) : last_positions[t] # r) =>
                  bos[r] = 0 /\ choch[r] = 0

\* C1 witness: the newest four swings make an event, which the row of p3
\* carries while the row of p2 carries none.
C1_Witness ==
    /\ bos_pc = "classify"
    /\ Len(last_positions) >= 4
    /\ EventAround(Len(last_positions) - 2) # <<0, 0>>
    /\ bos[PyAt(last_positions, -3)] # 0 \/ choch[PyAt(last_positions, -3)] # 0
    /\ bos[PyAt(last_positions, -2)] = 0 /\ choch[PyAt(last_positions, -2)] = 0

\* C1: when the newest swing p1 is appended and the last four swings make a
\* BOS or CHoCH, the value is written at the row of p2, the swing
\* immediately before p1.
C1_AnchoredAtSecondNewest ==
    (bos_pc = "classify" /\ Len(last_positions) >= 4) =>
        (EventAround(Len(last_positions) - 2) # <<0, 0>> =>
            <<bos[PyAt(last_positions, -2)], choch[PyAt(last_positions, -2)]>>
                = EventAround(Len(last_positions) - 2))

\* The rows of the table returned that carry an event.
Survivors == {r \in DOMAIN bos_out :
                 ~IsNaN(bos_out[r].BOS) \/ ~IsNaN(bos_out[r].CHOCH)}

\* The candle at row c crosses the level of the event at row a in the
\* event's direction.
Crosses(a, c) ==
    IF bos_out[a].BOS = Num(1) \/ bos_out[a].CHOCH = Num(1)
    THEN (IF close_break THEN ohlc[c].close ELSE ohlc[c].high) > level[a]
    ELSE (IF close_break THEN ohlc[c].close ELSE ohlc[c].low) < level[a]

\* C2: every event of the table returned, anchored at row a with the level
\* L the detector holds for it and BrokenIndex b, has b >= a + 2, the candle
\* at b crosses L in the event's direction, and no candle of a+2 .. b-1 does.
C2_BrokenIsFirstCross ==
    bos_pc = "done" =>
        \A a \in Survivors :
            /\ ~IsNaN(bos_out[a].BrokenIndex)
            /\ LET b == bos_out[a].BrokenIndex[1]
               IN  /\ b >= a + 2
                   /\ b \in DOMAIN ohlc
                   /\ Crosses(a, b)
                   /\ \A c \in (a + 2)..(b - 1) : ~Crosses(a, c)

\* C2 witness: a returned event broken at a row after a + 2, the candle at
\* a + 2 not crossing its level.
C2_Witness ==
    /\ bos_pc = "done"
    /\ \E a \in Survivors :
          /\ bos_out[a].BrokenIndex[1] > a + 2
          /\ ~Crosses(a, a + 2)

\* C3: of two events of the table returned, the one anchored earlier has the
\* strictly smaller BrokenIndex.
C3_BrokenIncreases ==
    bos_pc = "done" =>
        \A k \in Survivors : \A i \in Survivors :
            k < i => Lt(bos_out[k].BrokenIndex, bos_out[i].BrokenIndex)

\* C3 witness: the table returned holds two events.
C3_Witness ==
    /\ bos_pc = "done"
    /\ \E k \in Survivors : \E i \in Survivors : k < i

\* C4: the table returned holds confirmed events only.  BrokenIndex is
\* present exactly where BOS or CHOCH is, and a row with no event has BOS,
\* CHOCH, Level and BrokenIndex all absent.
C4_OnlyConfirmedEvents ==
    bos_pc = "done" =>
        \A r \in DOMAIN bos_out :
            /\ ~IsNaN(bos_out[r].BrokenIndex) <=> r \in Survivors
            /\ r \notin Survivors =>
                  IsNaN(bos_out[r].Level) /\ IsNaN(bos_out[r].BrokenIndex)

\* C13: in the table returned, every row where BOS or CHOCH is present has
\* a Level that is present and is the level the detector holds for the
\* event, also when that level is the price 0.
C13_EventHasLevel ==
    bos_pc = "done" =>
        \A r \in Survivors : bos_out[r].Level = Num(level[r])

\* C16: only rows labelled swing high or swing low are appended to the
\* running lists of bos_choch, and every level appended is present.
C16_OnlySwingsAppended ==
    bos_pc = "classify" =>
        \A k \in DOMAIN highs_lows_order :
            /\ highs_lows_order[k] \in {1, -1}
            /\ ~IsNaN(level_order[k])

\* C19: no row ever carries both a BOS and a CHoCH, while the swing table
\* is classified, while events are resolved and in the table returned.
C19_NeverBosAndChoch ==
    /\ \A r \in DOMAIN bos : bos[r] = 0 \/ choch[r] = 0
    /\ \A r \in DOMAIN bos_out :
          IsNaN(bos_out[r].BOS) \/ IsNaN(bos_out[r].CHOCH)

\* C19 witness: the classification pass has written a BOS at one row and a
\* CHoCH at another.
C19_Witness ==
    /\ bos_pc = "classify"
    /\ \E r \in DOMAIN bos : bos[r] # 0
    /\ \E r \in DOMAIN choch : choch[r] # 0

---------------------------------------------------------------------------
\* ob.

\* Series.iloc[k]: a negative k counts back from the last row.
Iloc(col, k) == IF k < 0 THEN col[Rows(col) + k] ELSE col[k]

None == <<>>

\* find_last_swing: the last row before `index` whose HighLow is `direction`.
find_last_swing(shl, index, direction) ==
    LET last_swing_indices ==
            {j \in DOMAIN shl : Eq(shl[j], Num(direction)) /\ j < index}
    IN  IF last_swing_indices # {} THEN <<SetMax(last_swing_indices)>> ELSE None

Min2(a, b) == IF a <= b THEN a ELSE b
Max2(a, b) == IF a >= b THEN a ELSE b

RECURSIVE ScanBlock(_, _, _, _, _, _, _)
\* The loop of lines 579-592 from row j on: obBtm, obTop and obIndex after it.
ScanBlock(df, direction, j, index, obBtm, obTop, obIndex) ==
    IF j >= index
    THEN [obBtm |-> obBtm, obTop |-> obTop, obIndex |-> obIndex]
    ELSE IF direction = 1
    THEN LET b == Min2(df[j].low, obBtm)
         IN  ScanBlock(df, direction, j + 1, index, b,
                       IF b = df[j].low THEN df[j].high ELSE obTop,
                       IF b = df[j].low THEN j ELSE obIndex)
    ELSE LET t == Max2(df[j].high, obTop)
         IN  ScanBlock(df, direction, j + 1, index,
                       IF t = df[j].high THEN df[j].low ELSE obBtm, t,
                       IF t = df[j].high THEN j ELSE obIndex)

\* A strength that falls back to 0 when both volumes are 0.
PercentageOrZero(low, high) ==
    IF Max2(low, high) # 0
    THEN (Min2(low, high) * 100) \div Max2(low, high)
    ELSE 0

\* Lines 599-600: min / max * 100.0, or 1 when the larger volume is 0, stored
\* in an int32 array, which drops the fraction.  The quotient is taken
\* exactly; float rounding is not modelled.
Percentage(low, high) ==
    IF Max2(low, high) # 0
    THEN (Min2(low, high) * 100) \div Max2(low, high)
    ELSE 1

\* update_order_block(index, direction) on the arrays blk; vol is the volume
\* column, brk the breaker array.  The field trigger is no array of the
\* source: it records the index of the call that last wrote the row.
update_order_block(df, vol, blk, brk, index, direction) ==
    LET seed == IF direction = 1
                THEN [obBtm |-> df[index - 1].low, obTop |-> df[index - 1].high]
                ELSE [obBtm |-> df[index - 1].high, obTop |-> df[index - 1].low]
        scan == ScanBlock(df, direction, 1, index, seed.obBtm, seed.obTop, index - 1)
        obIndex == scan.obIndex
        low  == Float32(IF direction = 1 THEN Iloc(vol, index - 2)[1]
                        ELSE Iloc(vol, index)[1])
        high == Float32(IF direction = 1
                        THEN Iloc(vol, index)[1] + Iloc(vol, index - 1)[1]
                        ELSE Iloc(vol, index - 2)[1])
    IN  [ob |-> [blk.ob EXCEPT ![obIndex] = direction],
         top |-> [blk.top EXCEPT ![obIndex] = Float32(scan.obTop)],
         bottom |-> [blk.bottom EXCEPT ![obIndex] = Float32(scan.obBtm)],
         obVolume |-> [blk.obVolume EXCEPT ![obIndex] =
                          Float32(Iloc(vol, index)[1] + Iloc(vol, index - 1)[1]
                                  + Iloc(vol, index - 2)[1])],
         lowVolume |-> [blk.lowVolume EXCEPT ![obIndex] = low],
         highVolume |-> [blk.highVolume EXCEPT ![obIndex] = high],
         percentage |-> [blk.percentage EXCEPT ![obIndex] = Percentage(low, high)],
         mitigated_index |->
             IF brk[obIndex] /\ blk.mitigated_index[obIndex] = 0
             THEN [blk.mitigated_index EXCEPT ![obIndex] = index - 1]
             ELSE blk.mitigated_index,
         trigger |-> [blk.trigger EXCEPT ![obIndex] = index]]

ObPrices == 0..1
ObVolumes == {0, 1, 64}

\* Candles with low <= close <= high; open is not read.
ObCandles ==
    {c \in [high : ObPrices, low : ObPrices, close : ObPrices] :
        c.low <= c.close /\ c.close <= c.high}

\* A row of the two tables: a candle and the HighLow of the swing table (0 for
\* no swing, as swing_highs_lows writes it).
ObRows == [candle : ObCandles, HighLow : {Num(0), Num(1), Num(-1)}]

\* len(ohlc), line 549: the volume column has all its rows from the start.
ohlc_len == Rows(volume)

\* The rows of the volume column update_order_block(index, .) reads.
VolumeRowsRead(index) ==
    {index, index - 1, IF index - 2 < 0 THEN ohlc_len + index - 2 ELSE index - 2}

\* The volume column with the cells of `rows` not read before now drawn.
VolumeDrawn(vol, rows) ==
    LET fresh == {r \in rows : vol[r] = <<>>}
    IN  {[r \in DOMAIN vol |-> IF r \in fresh THEN Num(f[r]) ELSE vol[r]] :
            f \in [fresh -> ObVolumes]}

\* ob is called on tables of ObLen rows.  A row of the candle and swing
\* tables is drawn when the loop at line 606 comes to it, a cell of the
\* volume column when update_order_block first reads it.
InitOb ==
    /\ IdleSwing
    /\ IdleBos
    /\ IdleLiq
    /\ ohlc = <<>>
    /\ ob_pc = "scan"
    /\ close_index = 0
    /\ swing_high_low = <<>>
    /\ volume = [r \in 0..(ObLen - 1) |-> <<>>]
    /\ close_mitigation \in BOOLEAN
    /\ blocks = [ob |-> Zeros(ObLen), top |-> Zeros(ObLen), bottom |-> Zeros(ObLen),
                 obVolume |-> Zeros(ObLen), lowVolume |-> Zeros(ObLen),
                 highVolume |-> Zeros(ObLen), percentage |-> Zeros(ObLen),
                 mitigated_index |-> Zeros(ObLen), trigger |-> Zeros(ObLen)]
    /\ breaker = [r \in 0..(ObLen - 1) |-> FALSE]
    /\ crossed = [r \in 0..(ObLen - 1) |-> FALSE]
    /\ ob_out = <<>>

\* One pass of the loop at line 606, on the row `row`.
ObRow(row) ==
    /\ ob_pc = "scan"
    /\ close_index < ohlc_len
    /\ close_index' = close_index + 1
    /\ ohlc' = AppendRow(ohlc, row.candle)
    /\ swing_high_low' = AppendRow(swing_high_low, row.HighLow)
    /\ LET df == ohlc'
           last_top_index == find_last_swing(swing_high_low', close_index, 1)
           bullish == /\ last_top_index # None
                      /\ df[close_index].close > df[last_top_index[1]].high
                      /\ ~crossed[last_top_index[1]]
           crossed1 == IF bullish THEN [crossed EXCEPT ![last_top_index[1]] = TRUE]
                       ELSE crossed
           last_btm_index == find_last_swing(swing_high_low', close_index, -1)
           bearish == /\ last_btm_index # None
                      /\ df[close_index].close < df[last_btm_index[1]].low
                      /\ ~crossed1[last_btm_index[1]]
       IN  /\ crossed' = IF bearish THEN [crossed1 EXCEPT ![last_btm_index[1]] = TRUE]
                         ELSE crossed1
           /\ IF bullish \/ bearish
              THEN volume' \in VolumeDrawn(volume, VolumeRowsRead(close_index))
              ELSE volume' = volume
           /\ LET blocks1 == IF bullish
                             THEN update_order_block(df, volume', blocks, breaker,
                                                     close_index, 1)
                             ELSE blocks
              IN  blocks' = IF bearish
                            THEN update_order_block(df, volume', blocks1, breaker,
                                                    close_index, -1)
                            ELSE blocks1
    /\ UNCHANGED <<swingVars, bosVars, liqVars, ob_pc, close_mitigation, breaker, ob_out>>

\* Lines 622-633: the table returned; a row with no block is NaN in every column.
ReturnOb ==
    /\ ob_pc = "scan"
    /\ close_index = ohlc_len
    /\ ob_pc' = "done"
    /\ ob_out' = [r \in DOMAIN blocks.ob |->
                    IF blocks.ob[r] # 0
                    THEN [OB |-> Num(blocks.ob[r]),
                          Top |-> Num(blocks.top[r]),
                          Bottom |-> Num(blocks.bottom[r]),
                          OBVolume |-> Num(blocks.obVolume[r]),
                          MitigatedIndex |-> Num(blocks.mitigated_index[r]),
                          Percentage |-> Num(blocks.percentage[r])]
                    ELSE [OB |-> NaN, Top |-> NaN, Bottom |-> NaN, OBVolume |-> NaN,
                          MitigatedIndex |-> NaN, Percentage |-> NaN]]
    /\ UNCHANGED <<ohlc, swingVars, bosVars, liqVars, close_index, swing_high_low, volume,
                   close_mitigation, blocks, breaker, crossed>>

NextOb ==
    \/ \E row \in ObRows : ObRow(row)
    \/ ReturnOb

SpecOb == InitOb /\ [][NextOb]_vars

\* Candles of row 0, which reach one price above ObPrices so that a later
\* candle can close below the low of a row 0 that has a range.
ObFirstCandles ==
    {c \in [high : 0..(SetMax(ObPrices) + 1), low : 0..(SetMax(ObPrices) + 1),
            close : 0..(SetMax(ObPrices) + 1)] :
        c.low <= c.close /\ c.close <= c.high}

\* ob called on tables of ObCrossLen rows whose volume column is all 0:
\* longer tables, for the order in which swings are crossed and the anchor
\* of a block.  The call is taken up after the first pass of the loop at
\* line 606, which finds no swing before row 0 and writes nothing.
InitObCross ==
    /\ IdleSwing
    /\ IdleBos
    /\ IdleLiq
    /\ \E c \in ObFirstCandles : ohlc = AppendRow(<<>>, c)
    /\ ob_pc = "scan"
    /\ close_index = 1
    /\ \E hl \in {Num(0), Num(1), Num(-1)} : swing_high_low = AppendRow(<<>>, hl)
    /\ volume = [r \in 0..(ObCrossLen - 1) |-> Num(0)]
    /\ close_mitigation = FALSE
    /\ blocks = [ob |-> Zeros(ObCrossLen), top |-> Zeros(ObCrossLen),
                 bottom |-> Zeros(ObCrossLen), obVolume |-> Zeros(ObCrossLen),
                 lowVolume |-> Zeros(ObCrossLen), highVolume |-> Zeros(ObCrossLen),
                 percentage |-> Zeros(ObCrossLen),
                 mitigated_index |-> Zeros(ObCrossLen), trigger |-> Zeros(ObCrossLen)]
    /\ breaker = [r \in 0..(ObCrossLen - 1) |-> FALSE]
    /\ crossed = [r \in 0..(ObCrossLen - 1) |-> FALSE]
    /\ ob_out = <<>>

SpecObCross == InitObCross /\ [][NextOb]_vars

---------------------------------------------------------------------------
\* Claims about ob.

\* The rows of the table returned that carry an order block.
Reported == {r \in DOMAIN ob_out : ~IsNaN(ob_out[r].OB)}

\* The candle at row c re-enters the range [Bottom, Top] of the block at row
\* r: its close when close_mitigation, its wick otherwise.
ReEnters(r, c) ==
    IF close_mitigation
    THEN /\ ob_out[r].Bottom[1] <= ohlc[c].close
         /\ ohlc[c].close <= ob_out[r].Top[1]
    ELSE /\ ohlc[c].low <= ob_out[r].Top[1]
         /\ ohlc[c].high >= ob_out[r].Bottom[1]

\* C8: every order block reported has as MitigatedIndex the first row after
\* its triggering candle whose price re-enters its [Bottom, Top] range, and
\* the unmitigated marker 0 only when no later candle re-enters it.
C8_MitigatedAtFirstReentry ==
    ob_pc = "done" =>
        \A r \in Reported :
            LET later == {c \in DOMAIN ohlc :
                             c > blocks.trigger[r] /\ ReEnters(r, c)}
            IN  ob_out[r].MitigatedIndex =
                    IF later = {} THEN Num(0) ELSE Num(SetMin(later))

VolumeUpTo(i, k) == IF k \in 0..i THEN volume[k][1] ELSE 0

\* C10: a block that candle i triggers has OBVolume = volume[i] +
\* volume[i-1] + volume[i-2], and lowVolume and highVolume made of those
\* three; no volume of a candle after i enters them.
C10_VolumeOfThreeEndingAtTrigger ==
    ob_pc = "done" =>
        \A r \in Reported :
            LET i == blocks.trigger[r]
            IN  /\ ob_out[r].OBVolume =
                      Num(VolumeUpTo(i, i) + VolumeUpTo(i, i - 1) + VolumeUpTo(i, i - 2))
                /\ blocks.lowVolume[r] =
                      (IF blocks.ob[r] = 1 THEN VolumeUpTo(i, i - 2) ELSE VolumeUpTo(i, i))
                /\ blocks.highVolume[r] =
                      (IF blocks.ob[r] = 1 THEN VolumeUpTo(i, i) + VolumeUpTo(i, i - 1)
                       ELSE VolumeUpTo(i, i - 2))

\* The swings of direction d before the candle the loop is at that are not
\* crossed when the pass begins.
UncrossedBefore(d) ==
    {j \in DOMAIN swing_high_low' :
        j < close_index /\ swing_high_low'[j] = Num(d) /\ ~crossed[j]}

\* The candle the loop is at closes beyond the most recent uncrossed swing
\* of direction d.
ClosesBeyond(d) ==
    /\ UncrossedBefore(d) # {}
    /\ LET h == SetMax(UncrossedBefore(d))
       IN  IF d = 1 THEN ohlc'[close_index].close > ohlc'[h].high
           ELSE ohlc'[close_index].close < ohlc'[h].low

\* The pass marks a swing of direction d crossed, which it does exactly
\* when it constructs a block of that direction.
Constructs(d) ==
    \E j \in DOMAIN swing_high_low' :
        swing_high_low'[j] = Num(d) /\ ~crossed[j] /\ crossed'[j]

\* C17: at every candle i a bullish block is constructed exactly when a
\* swing high before i is not yet crossed and close[i] is above the high of
\* the most recent such swing h, which is then marked crossed; an earlier
\* uncrossed swing high is used when the latest one is already crossed.
\* Likewise for swing lows and bearish blocks.
C17_MostRecentUncrossedSwing ==
    [][(ob_pc = "scan" /\ ob_pc' = "scan") =>
        \A d \in {1, -1} :
            /\ ClosesBeyond(d) <=> Constructs(d)
            /\ ClosesBeyond(d) => crossed'[SetMax(UncrossedBefore(d))]]_vars

\* C18: a block that candle i triggers is anchored at a candle with the
\* least low (bullish) or the greatest high (bearish) of rows 1..i-1, at row
\* i-1 when there are none; its Top is the anchor's high and its Bottom the
\* anchor's low, so Top >= Bottom.
C18_AnchorTopBottom ==
    ob_pc = "done" =>
        \A r \in Reported :
            LET i == blocks.trigger[r]
                range == 1..(i - 1)
            IN  /\ IF range = {} THEN r = i - 1
                   ELSE /\ r \in range
                        /\ blocks.ob[r] = 1 =>
                              \A j \in range : ohlc[r].low <= ohlc[j].low
                        /\ blocks.ob[r] = -1 =>
                              \A j \in range : ohlc[r].high >= ohlc[j].high
                /\ ob_out[r].Top = Num(ohlc[r].high)
                /\ ob_out[r].Bottom = Num(ohlc[r].low)
                /\ Ge(ob_out[r].Top, ob_out[r].Bottom)

---------------------------------------------------------------------------
\* liquidity.

LiqPrices == 0..1

\* Candles of liquidity: it reads high and low; close is that of a candle
\* that closes at its high.
LiqCandles ==
    {c \in [high : LiqPrices, low : LiqPrices, close : LiqPrices] :
        c.low <= c.high /\ c.close = c.high}

\* A row of the two tables: a candle, and the row swing_highs_lows makes
\* for it: no swing (0, NaN), a swing high at its high, a swing low at its low.
LiqRows ==
    {[candle |-> c, HighLow |-> Num(d),
      Level |-> IF d = 1 THEN Num(c.high) ELSE IF d = -1 THEN Num(c.low) ELSE NaN] :
        c \in LiqCandles, d \in {0, 1, -1}}

\* range_percent: negative, 0, and up to 1.
RangePercents == (-1)..RangeDenominator

\* Line 659, in units of 1 / RangeDenominator.
pip_range ==
    (SetMax({ohlc[r].high : r \in DOMAIN ohlc})
        - SetMin({ohlc[r].low : r \in DOMAIN ohlc})) * range_percent

\* Lines 670-671 and 700-701 for the seed level v, in the same units.
range_low(v) == RangeDenominator * v - pip_range
range_high(v) == RangeDenominator * v + pip_range

\* range_low <= Level <= range_high, lines 679 and 709; false for NaN.
InBand(lvl, v) ==
    /\ ~IsNaN(lvl)
    /\ range_low(v) <= RangeDenominator * lvl[1]
    /\ RangeDenominator * lvl[1] <= range_high(v)

\* A sweep only by a candle that goes beyond the band.
SweepsStrictly(direction, c, v) ==
    IF direction = 1 THEN RangeDenominator * ohlc[c].high > range_high(v)
    ELSE RangeDenominator * ohlc[c].low < range_low(v)

\* The tests of lines 685 and 715 on the candle at row c.
Sweeps(direction, c, v) ==
    IF direction = 1 THEN RangeDenominator * ohlc[c].high >= range_high(v)
    ELSE RangeDenominator * ohlc[c].low <= range_low(v)

\* A joined swing that keeps its label.
KeptLabel(label) == label

\* Lines 684 and 714: the label of a joined swing becomes 0.
ConsumedLabel(label) == Num(0)

\* A cluster of the seed alone.
IsClusterOfOne(temp_liquidity_level) == Len(temp_liquidity_level) >= 1

\* Lines 688 and 718.
IsCluster(temp_liquidity_level) == Len(temp_liquidity_level) > 1

\* The caller's table when the detector writes to the table it was passed.
SharedWithCaller(caller, written) == written

\* Line 656: the writes of lines 684 and 714 go to a copy, whose rows are
\* `written` after them; the rows of the caller's table are as they were.
AfterWriteToCopy(caller, written) == caller

RECURSIVE SumSeq(_)
SumSeq(q) == IF q = <<>> THEN 0 ELSE Head(q) + SumSeq(Tail(q))

\* sum(temp_liquidity_level) / len(temp_liquidity_level), lines 689-690 and
\* 719-720, kept as the fraction <<sum, len>>: the rounding of the quotient
\* to float32 is not modelled.
Mean(temp_liquidity_level) == <<SumSeq(temp_liquidity_level), Len(temp_liquidity_level)>>

RECURSIVE ScanOn(_, _, _, _, _, _, _, _)
\* A scan that notes a sweep and goes on to the last row.
ScanOn(direction, c, v, tbl, temp, end, joined, swept) ==
    IF c >= Rows(tbl)
    THEN [tbl |-> tbl, temp |-> temp, end |-> end, swept |-> swept, joined |-> joined]
    ELSE LET joins == Eq(tbl[c].HighLow, Num(direction)) /\ InBand(tbl[c].Level, v)
         IN  ScanOn(direction, c + 1, v,
                    IF joins THEN [tbl EXCEPT ![c].HighLow = ConsumedLabel(tbl[c].HighLow)]
                    ELSE tbl,
                    IF joins THEN Append(temp, tbl[c].Level[1]) ELSE temp,
                    IF joins THEN c ELSE end,
                    IF joins THEN joined \cup {c} ELSE joined,
                    IF Sweeps(direction, c, v) THEN c ELSE swept)

\* The scan without the break of lines 687 and 717.
ScanZoneNoBreak(direction, c, v, tbl, temp, end, joined) ==
    ScanOn(direction, c, v, tbl, temp, end, joined, 0)

RECURSIVE ScanZone(_, _, _, _, _, _, _)
\* The loop of lines 676-687 (706-717) from row c on, for a seed of level v:
\* the copy, temp_liquidity_level, end and swept after it.  The field
\* joined is no variable of the source: it holds the rows that joined.
ScanZone(direction, c, v, tbl, temp, end, joined) ==
    IF c >= Rows(tbl)
    THEN [tbl |-> tbl, temp |-> temp, end |-> end, swept |-> 0, joined |-> joined]
    ELSE LET joins == Eq(tbl[c].HighLow, Num(direction)) /\ InBand(tbl[c].Level, v)
             tbl1  == IF joins
                      THEN [tbl EXCEPT ![c].HighLow = ConsumedLabel(tbl[c].HighLow)]
                      ELSE tbl
             temp1 == IF joins THEN Append(temp, tbl[c].Level[1]) ELSE temp
             end1  == IF joins THEN c ELSE end
             join1 == IF joins THEN joined \cup {c} ELSE joined
         IN  IF Sweeps(direction, c, v)
             THEN [tbl |-> tbl1, temp |-> temp1, end |-> end1, swept |-> c,
                   joined |-> join1]
             ELSE ScanZone(direction, c + 1, v, tbl1, temp1, end1, join1)

\* The arrays of lines 662-665 for n rows; members is no array of the
\* source: it holds, for a zone, its seed and the rows that joined it.
ZeroZones(n) ==
    [liquidity |-> Zeros(n), level |-> [r \in 0..(n - 1) |-> <<0, 1>>],
     end |-> Zeros(n), swept |-> Zeros(n), members |-> [r \in 0..(n - 1) |-> {}]]

\* liquidity is called on tables of LiqLen rows with a range_percent; all of
\* the candle table is read at line 659.
InitLiq ==
    /\ IdleSwing
    /\ IdleBos
    /\ IdleOb
    /\ \E rows \in [0..(LiqLen - 1) -> LiqRows] :
          /\ ohlc = [r \in 0..(LiqLen - 1) |-> rows[r].candle]
          /\ swing_arg = [r \in 0..(LiqLen - 1) |->
                            [HighLow |-> rows[r].HighLow, Level |-> rows[r].Level]]
    /\ swing_copy = swing_arg
    /\ range_percent \in RangePercents
    /\ liq_pc = "highs"
    /\ liq_i = 0
    /\ liq = ZeroZones(LiqLen)
    /\ liq_out = <<>>
    /\ liq_run = 1
    /\ liq_first = <<>>

\* One pass of the loop at line 667 (direction 1) or 697 (direction -1), on
\* row liq_i.
LiquidityPass(direction) ==
    /\ liq_i < Rows(ohlc)
    /\ LET i == liq_i
           last == i + 1 = Rows(ohlc)
       IN  /\ liq_i' = IF last THEN 0 ELSE i + 1
           /\ liq_pc' = IF ~last THEN liq_pc
                        ELSE IF direction = 1 THEN "lows" ELSE "return"
           /\ IF Eq(swing_copy[i].HighLow, Num(direction))
              THEN LET v == swing_copy[i].Level[1]
                       scan == ScanZone(direction, i + 1, v, swing_copy, <<v>>, i, {})
                   IN  /\ swing_copy' = scan.tbl
                       /\ swing_arg' = AfterWriteToCopy(swing_arg, scan.tbl)
                       /\ liq' = IF IsCluster(scan.temp)
                                 THEN [liquidity |-> [liq.liquidity EXCEPT ![i] = direction],
                                       level |-> [liq.level EXCEPT ![i] = Mean(scan.temp)],
                                       end |-> [liq.end EXCEPT ![i] = scan.end],
                                       swept |-> [liq.swept EXCEPT ![i] = scan.swept],
                                       members |-> [liq.members EXCEPT
                                                       ![i] = {i} \cup scan.joined]]
                                 ELSE liq
              ELSE UNCHANGED <<swing_copy, swing_arg, liq>>
    /\ UNCHANGED <<ohlc, swingVars, bosVars, obVars, range_percent, liq_out,
                   liq_run, liq_first>>

LiquidityHighs == liq_pc = "highs" /\ LiquidityPass(1)

LiquidityLows == liq_pc = "lows" /\ LiquidityPass(-1)

\* Lines 726-738: the table returned; a row with no zone is NaN in every column.
ReturnLiquidity ==
    /\ liq_pc = "return"
    /\ liq_pc' = "done"
    /\ liq_out' = [r \in DOMAIN liq.liquidity |->
                     IF liq.liquidity[r] # 0
                     THEN [Liquidity |-> Num(liq.liquidity[r]),
                           Level |-> Num(liq.level[r]),
                           End |-> Num(liq.end[r]),
                           Swept |-> Num(liq.swept[r])]
                     ELSE [Liquidity |-> NaN, Level |-> NaN, End |-> NaN, Swept |-> NaN]]
    /\ UNCHANGED <<ohlc, swingVars, bosVars, obVars, liq_i, range_percent, swing_arg,
                   swing_copy, liq, liq_run, liq_first>>

\* The caller keeps the table returned and calls liquidity again on the
\* same candle table, swing table and range_percent: lines 656-665 again.
LiquidityAgain ==
    /\ liq_pc = "done"
    /\ liq_run = 1
    /\ liq_run' = 2
    /\ liq_first' = liq_out
    /\ liq_out' = <<>>
    /\ swing_copy' = swing_arg
    /\ liq' = ZeroZones(Rows(ohlc))
    /\ liq_pc' = "highs"
    /\ liq_i' = 0
    /\ UNCHANGED <<ohlc, swingVars, bosVars, obVars, range_percent, swing_arg>>

NextLiq ==
    \/ LiquidityHighs
    \/ LiquidityLows
    \/ ReturnLiquidity
    \/ LiquidityAgain

SpecLiq == InitLiq /\ [][NextLiq]_vars

---------------------------------------------------------------------------
\* Claims about liquidity.

\* The rows of the table returned that carry a zone.
Zones == {s \in DOMAIN liq_out : ~IsNaN(liq_out[s].Liquidity)}

\* The level of the swing at row c of the caller's table lies within
\* pip_range of the level of the swing at row s.
WithinBand(s, c) ==
    /\ ~IsNaN(swing_arg[c].Level)
    /\ RangeDenominator * swing_arg[s].Level[1] - pip_range
          <= RangeDenominator * swing_arg[c].Level[1]
    /\ RangeDenominator * swing_arg[c].Level[1]
          <= RangeDenominator * swing_arg[s].Level[1] + pip_range

\* The candle at row c reaches the far edge of the band of the seed at row
\* s, whose direction is d.
ReachesEdge(d, s, c) ==
    IF d = 1
    THEN RangeDenominator * ohlc[c].high
            >= RangeDenominator * swing_arg[s].Level[1] + pip_range
    ELSE RangeDenominator * ohlc[c].low
            <= RangeDenominator * swing_arg[s].Level[1] - pip_range

\* C11: every zone of the table returned has at least two members, its seed
\* and at least one later swing, all of its direction and within the band
\* of the seed; a swing that no later swing of its direction within its band
\* follows has no zone.
C11_ZoneHasTwoMembers ==
    liq_pc = "done" =>
        \A s \in DOMAIN liq_out :
            /\ s \in Zones =>
                  /\ Cardinality(liq.members[s]) >= 2
                  /\ s \in liq.members[s]
                  /\ \A c \in liq.members[s] :
                        /\ c >= s
                        /\ swing_arg[c].HighLow = Num(liq.liquidity[s])
                        /\ WithinBand(s, c)
            /\ (\A c \in DOMAIN swing_arg :
                    ~(c > s /\ swing_arg[c].HighLow = swing_arg[s].HighLow
                            /\ WithinBand(s, c)))
                  => s \notin Zones

\* C11 witness: the table returned has a zone, and a swing with no zone
\* that no zone took in.
C11_Witness ==
    /\ liq_pc = "done"
    /\ Zones # {}
    /\ \E c \in DOMAIN swing_arg :
          /\ swing_arg[c].HighLow \in {Num(1), Num(-1)}
          /\ c \notin Zones
          /\ \A s \in Zones : c \notin liq.members[s]

\* The rows after s whose candle reaches the far edge of the band of s.
Sweepers(s) ==
    {c \in DOMAIN ohlc : c > s /\ ReachesEdge(liq.liquidity[s], s, c)}

\* The rows the scan for the seed s comes to: those after s up to the
\* first sweeper.
Scanned(s) ==
    {c \in DOMAIN ohlc :
        c > s /\ (Sweepers(s) # {} => c <= SetMin(Sweepers(s)))}

\* Row c joined a zone seeded before row s.
ConsumedBefore(s, c) ==
    \E t \in Zones : t < s /\ c # t /\ c \in liq.members[t]

\* The members the zone seeded at s is to have.
ExpectedMembers(s) ==
    {s} \cup {c \in Scanned(s) :
                 /\ swing_arg[c].HighLow = Num(liq.liquidity[s])
                 /\ WithinBand(s, c)
                 /\ ~ConsumedBefore(s, c)}

\* The levels of the rows of S in the caller's table, in row order.
LevelsOf(S) ==
    [k \in 1..Cardinality(S) |-> swing_arg[Ascending(S)[k]].Level[1]]

\* C12: a zone seeded at s has as members s and every later swing of its
\* direction, not yet consumed, whose level is within the band and that the
\* scan comes to before it stops; Level is the mean of the members' levels,
\* End the last member, Swept the first candle after s that reaches the far
\* edge of the band, or 0 when there is none.
C12_ZoneMembersLevelEndSwept ==
    liq_pc = "done" =>
        \A s \in Zones :
            LET M == ExpectedMembers(s)
            IN  /\ liq.members[s] = M
                /\ liq_out[s].Level[1][1] * Cardinality(M)
                      = SumSeq(LevelsOf(M)) * liq_out[s].Level[1][2]
                /\ liq_out[s].End = Num(SetMax(M))
                /\ liq_out[s].Swept =
                      IF Sweepers(s) = {} THEN Num(0) ELSE Num(SetMin(Sweepers(s)))

\* C12 witness: a swept zone, with a later swing of its direction within the
\* band that the scan did not come to.
C12_Witness ==
    /\ liq_pc = "done"
    /\ \E s \in Zones :
          /\ liq_out[s].Swept # Num(0)
          /\ \E c \in DOMAIN swing_arg :
                /\ c > liq_out[s].Swept[1]
                /\ swing_arg[c].HighLow = Num(liq.liquidity[s])
                /\ WithinBand(s, c)

C15_NoTableForBadRange ==
    liq_pc = "done" => range_percent > 0

\* C20: no swing belongs to two zones: the members of two zones, seeds
\* included, are disjoint.
C20_ZonesDisjoint ==
    liq_pc = "done" =>
        \A s \in Zones : \A t \in Zones :
            s # t => liq.members[s] \cap liq.members[t] = {}

\* C20 witness: a swing that joined a zone is followed by a swing of its
\* direction within its own band, with which it would have made a zone.
C20_Witness ==
    /\ liq_pc = "done"
    /\ \E s \in Zones : \E c \in liq.members[s] \ {s} :
          \E e \in DOMAIN swing_arg :
              /\ e > c
              /\ swing_arg[e].HighLow = swing_arg[c].HighLow
              /\ WithinBand(c, e)

\* C21: a zone seeded at s has s < End; when it is swept, End <= Swept and
\* no member is after the sweep candle; Swept is 0 exactly when no candle
\* after s reaches the far edge of the band, and is after s otherwise.
C21_EndBeforeSweep ==
    liq_pc = "done" =>
        \A s \in Zones :
            LET e == liq_out[s].End[1]
                w == liq_out[s].Swept[1]
            IN  /\ s < e
                /\ w # 0 =>
                      /\ s < w
                      /\ e <= w
                      /\ \A c \in liq.members[s] : c <= w
                      /\ ReachesEdge(liq.liquidity[s], s, w)
                /\ w = 0 <=>
                      \A c \in DOMAIN ohlc :
                          c > s => ~ReachesEdge(liq.liquidity[s], s, c)

\* C21 witness: a swept zone, with after the sweep candle a swing of its
\* direction within the band and a candle that reaches the edge again.
C21_Witness ==
    /\ liq_pc = "done"
    /\ \E s \in Zones :
          /\ liq_out[s].Swept # Num(0)
          /\ \E c \in DOMAIN swing_arg :
                /\ c > liq_out[s].Swept[1]
                /\ swing_arg[c].HighLow = Num(liq.liquidity[s])
                /\ WithinBand(s, c)
                /\ ReachesEdge(liq.liquidity[s], s, c)

===========================================================================
